---- MODULE Spec2Model ----
(***************************************************************************)
(* Bala Lab report portal: the React client (App.js, AuthPage.js with the  *)
(* UserDashboard, AdminDashboard.js, lib/api) against the server contract. *)
(*                                                                         *)
(* A request of the client reaches the server in the step that sends it    *)
(* (the server's answer is computed from the server's state at that        *)
(* moment, or the request fails before reaching the server); the answer    *)
(* then waits in `ops` until the awaiting handler resumes, in any order.   *)
(***************************************************************************)
EXTENDS Naturals, FiniteSets, Bags, TLC

VARIABLES
    srvUsers,      \* server: registered accounts, email -> [password, role]
    srvReports,    \* server: stored report metadata
    nextId,        \* server: next report identifier
    token,         \* localStorage 'token'
    user,          \* useAuth().user
    loading,       \* useAuth().loading
    route,         \* the router's location
    view,          \* the component rendered at the location
    regionAdmin,   \* the requireAdmin prop of the gate being entered
    isLogin,       \* AuthPage state
    reports,       \* the mounted dashboard's reports state
    users,         \* AdminDashboard users state
    selectedUser,  \* AdminDashboard selectedUser state
    file,          \* AdminDashboard file state
    ops,           \* bag of awaited requests with the answer each will resume with
    toast,         \* the notice surfaced by the last step ("" when none)
    deleted,       \* history: identifiers the server has deleted
    refreshFailed  \* history: a fetchData of this page has been rejected

vars == <<srvUsers, srvReports, nextId, token, user, loading, route, view, regionAdmin, isLogin,
          reports, users, selectedUser, file, ops, toast, deleted, refreshFailed>>

(* ------------------------------ bounds -------------------------------- *)

MaxReports == 1     \* uploads the server accepts in a run
MaxOps == 2         \* requests a user action may leave awaited at once

(* ------------------------------ values -------------------------------- *)

Emails == {"admin@lab.com", "patient@example.com", "other@example.com"}
Passwords == {"pw1", "pw2"}
Roles == {"admin", "user"}
Files == {"lipid_panel.pdf"}
Routes == {"/login", "/register", "/"}

NoToken == [sub |-> ""]
NoUser == [email |-> "", role |-> ""]
NoFile == ""
NoHeader == [scheme |-> "", credentials |-> NoToken]

(* --------------------------- lib/api (client) -------------------------- *)

\* An interceptor that sets the header whatever localStorage holds.
Interceptor_always(t) ==
    [scheme |-> "Bearer", credentials |-> t]

\* The request interceptor: the Authorization header a request leaves with,
\* given the value localStorage holds under 'token' when it is sent.
Interceptor(t) ==
    IF t # NoToken THEN [scheme |-> "Bearer", credentials |-> t] ELSE NoHeader

(* -------------------------- server contract --------------------------- *)

\* The account a request's Authorization header stands for (NoUser: none).
Identity(hdr) ==
    IF hdr.scheme = "Bearer" /\ hdr.credentials.sub \in DOMAIN srvUsers
    THEN [email |-> hdr.credentials.sub, role |-> srvUsers[hdr.credentials.sub].role]
    ELSE NoUser

\* An answer: ok, the error detail of a refusal, and the payload by type.
Answer(ok, detail, tok, usr, reps, usrs) ==
    [ok |-> ok, detail |-> detail, tok |-> tok, usr |-> usr, reps |-> reps, usrs |-> usrs]

Refused(detail) == Answer(FALSE, detail, NoToken, NoUser, {}, {})

\* NetworkError: the request failed before reaching the server; no detail.
NetworkError == Refused("")

\* POST /auth/login
SrvLogin(email, password) ==
    IF email \in DOMAIN srvUsers /\ srvUsers[email].password = password
    THEN Answer(TRUE, "", [sub |-> email],
                [email |-> email, role |-> srvUsers[email].role], {}, {})
    ELSE Refused("Invalid credentials")

\* POST /auth/register: the answer, and the accounts afterwards.
SrvRegister(email, password, role) ==
    IF email \in DOMAIN srvUsers
    THEN Refused("Email already registered")
    ELSE Answer(TRUE, "", [sub |-> email], [email |-> email, role |-> role], {}, {})

SrvRegisterUsers(email, password, role) ==
    IF email \in DOMAIN srvUsers
    THEN srvUsers
    ELSE [e \in DOMAIN srvUsers \cup {email} |->
            IF e = email THEN [password |-> password, role |-> role] ELSE srvUsers[e]]

\* GET /auth/me (session restoration)
SrvMe(hdr) ==
    IF Identity(hdr) = NoUser
    THEN Refused("Not authenticated")
    ELSE Answer(TRUE, "", NoToken, Identity(hdr), {}, {})

\* GET /reports: scoped by the caller's role (admin: all; user: own only).
SrvListReports(hdr) ==
    IF Identity(hdr) = NoUser
    THEN Refused("Not authenticated")
    ELSE IF Identity(hdr).role = "admin"
    THEN Answer(TRUE, "", NoToken, NoUser, srvReports, {})
    ELSE Answer(TRUE, "", NoToken, NoUser,
                {r \in srvReports : r.user_email = Identity(hdr).email}, {})

\* GET /users (admin-only)
SrvListUsers(hdr) ==
    IF Identity(hdr) = NoUser
    THEN Refused("Not authenticated")
    ELSE IF Identity(hdr).role # "admin"
    THEN Refused("Admin access required")
    ELSE Answer(TRUE, "", NoToken, NoUser, {}, DOMAIN srvUsers)

\* POST /reports/upload (admin-only): whether it is accepted, and its answer.
SrvUploadAccepts(hdr) ==
    Identity(hdr) # NoUser /\ Identity(hdr).role = "admin"

SrvUpload(hdr, f, email) ==
    IF Identity(hdr) = NoUser
    THEN Refused("Not authenticated")
    ELSE IF Identity(hdr).role # "admin"
    THEN Refused("Admin access required")
    ELSE Answer(TRUE, "", NoToken, NoUser,
                {[id |-> nextId, user_email |-> email, original_name |-> f]}, {})

\* DELETE /reports/{id} (admin-only): NotFoundError on a missing report.
SrvDeleteAccepts(hdr, id) ==
    /\ Identity(hdr) # NoUser
    /\ Identity(hdr).role = "admin"
    /\ \E r \in srvReports : r.id = id

SrvDelete(hdr, id) ==
    IF Identity(hdr) = NoUser
    THEN Refused("Not authenticated")
    ELSE IF Identity(hdr).role # "admin"
    THEN Refused("Admin access required")
    ELSE IF ~ \E r \in srvReports : r.id = id
    THEN Refused("Report not found")
    ELSE Answer(TRUE, "", NoToken, NoUser, {}, {})

\* GET /reports/{id}/download: the caller's own report (any report, for an admin).
SrvDownload(hdr, id) ==
    IF Identity(hdr) = NoUser
    THEN Refused("Not authenticated")
    ELSE IF ~ \E r \in SrvListReports(hdr).reps : r.id = id
    THEN Refused("Report not found")
    ELSE Answer(TRUE, "", NoToken, NoUser, {}, {})

\* GET /reports/{id}/preview?token=<token>: the caller is the query's token.
SrvPreview(t, id) ==
    SrvDownload([scheme |-> "Bearer", credentials |-> t], id)

(* ------------------------------- App.js -------------------------------- *)

\* A gate without the user check.
ProtectedRoute_anyone(u, l, requireAdmin) ==
    IF l THEN "Loading"
    ELSE IF requireAdmin /\ u.role # "admin" THEN "Navigate:/"
    ELSE "children"

\* A gate without the role check.
ProtectedRoute_anyRole(u, l, requireAdmin) ==
    IF l THEN "Loading"
    ELSE IF u = NoUser THEN "Navigate:/login"
    ELSE "children"

\* ProtectedRoute: what the gate renders for a session.
ProtectedRoute(u, l, requireAdmin) ==
    IF l THEN "Loading"
    ELSE IF u = NoUser THEN "Navigate:/login"
    ELSE IF requireAdmin /\ u.role # "admin" THEN "Navigate:/"
    ELSE "children"

\* DashboardRouter: the dashboard rendered at the root route.
DashboardRouter(u) ==
    IF u # NoUser /\ u.role = "admin" THEN "AdminDashboard" ELSE "UserDashboard"

\* The location after the gate's redirect, and the component rendered there.
Location(r, u, l) ==
    IF r = "/" /\ ProtectedRoute(u, l, FALSE) = "Navigate:/login" THEN "/login" ELSE r

Rendered(r, u, l) ==
    IF Location(r, u, l) # "/" THEN "AuthPage"
    ELSE IF ProtectedRoute(u, l, FALSE) = "Loading" THEN "Loading"
    ELSE DashboardRouter(u)

(* --------------------------- awaited requests -------------------------- *)

DashboardKinds == {"fetchData", "fetchReports", "upload", "delete", "download"}

\* An awaited request: the handler that awaits it (kind), whether the component
\* that issued it is still mounted (live), the header it left with, and the
\* answer it resumes with.  fetchData awaits two requests: ok and reps answer
\* GET /reports, ok2 and usrs answer GET /users.  query is the token a URL
\* carries in its query string (none, for the requests of the api client).
Op(kind, live, hdr, id, ans, ok2) ==
    [kind |-> kind, live |-> live, hdr |-> hdr, query |-> NoToken, id |-> id,
     ok |-> ans.ok, ok2 |-> ok2, detail |-> ans.detail,
     tok |-> ans.tok, usr |-> ans.usr, reps |-> ans.reps, usrs |-> ans.usrs]

One(op) == SetToBag({op})

Count(b, op) == IF op \in DOMAIN b THEN b[op] ELSE 0

\* Unmounting a dashboard: its awaited requests still resume, but their state
\* updates no longer reach a mounted component.
Detached(op) ==
    IF op.kind \in DashboardKinds THEN [op EXCEPT !.live = FALSE] ELSE op

Detach(b) ==
    [x \in {Detached(op) : op \in BagToSet(b)} |->
        Count(b, x) + (IF x.kind \in DashboardKinds
                       THEN Count(b, [x EXCEPT !.live = TRUE]) ELSE 0)]

\* Reaching the server or failing before it.
Sent(net, ans) == IF net THEN ans ELSE NetworkError

(* --------------------- AdminDashboard / UserDashboard ------------------- *)

\* fetchData: Promise.all of GET /reports and GET /users, sent with the token
\* localStorage holds now.  The awaited value carries both lists when both
\* requests are fulfilled, and the rejection alone when one is rejected.
fetchData(t, live, net1, net2) ==
    LET r1 == Sent(net1, SrvListReports(Interceptor(t)))
        r2 == Sent(net2, SrvListUsers(Interceptor(t)))
    IN  Op("fetchData", live, Interceptor(t), 0,
           IF r1.ok /\ r2.ok THEN [r1 EXCEPT !.usrs = r2.usrs]
           ELSE IF r1.ok THEN [r2 EXCEPT !.ok = TRUE]
           ELSE r1,
           r2.ok)

\* UserDashboard.fetchReports: GET /reports.
fetchReports(t, live, net) ==
    Op("fetchReports", live, Interceptor(t), 0,
       Sent(net, SrvListReports(Interceptor(t))), TRUE)

\* The useEffect of the dashboard that mounts: the requests it may leave awaited.
MountFetch(v, t) ==
    IF v = "AdminDashboard"
    THEN {One(fetchData(t, TRUE, n1, n2)) : n1 \in BOOLEAN, n2 \in BOOLEAN}
    ELSE IF v = "UserDashboard"
    THEN {One(fetchReports(t, TRUE, n)) : n \in BOOLEAN}
    ELSE {EmptyBag}

\* State that outlives the component.
useState_kept(keep, current, initial) == current

\* useState: a component that stays mounted keeps its state, one that mounts
\* starts from the initial value.
useState(keep, current, initial) == IF keep THEN current ELSE initial

\* The end of every handler step: the session (t, u, l) and the requested
\* route r are rendered.  A dashboard that stays mounted keeps its state
\* (rep, usr, sel, f: the handler's own updates); a component that mounts
\* starts from its initial state and runs its effect.
Commit(t, u, l, r, o, rep, usr, sel, f, msg, fresh) ==
    LET loc == Location(r, u, l)
        nv == Rendered(r, u, l)
        keep == ~fresh /\ nv = view
    IN  /\ token' = t
        /\ user' = u
        /\ loading' = l
        /\ route' = loc
        /\ view' = nv
        /\ regionAdmin' = regionAdmin
        /\ toast' = msg
        /\ refreshFailed' = IF fresh THEN FALSE
                            ELSE refreshFailed \/ msg = "Failed to fetch dashboard data"
        /\ isLogin' = IF nv # "AuthPage" THEN TRUE
                      ELSE IF keep THEN isLogin ELSE loc # "/register"
        /\ reports' = useState(keep, rep, {})
        /\ users' = useState(keep, usr, {})
        /\ selectedUser' = useState(keep, sel, "")
        /\ file' = useState(keep, f, NoFile)
        /\ IF keep
           THEN ops' = o
           ELSE \E m \in MountFetch(nv, t) : ops' = Detach(o) (+) m

\* A handler step that changes neither the session nor the route.
Stay(o, rep, usr, sel, f, msg) ==
    Commit(token, user, loading, route, o, rep, usr, sel, f, msg, FALSE)

server == <<srvUsers, srvReports, nextId, deleted>>

(* ---------------------- useAuth / AuthProvider ------------------------- *)

\* Opening the application at a URL: the page's state starts anew, the stored
\* token persists.  With a token present the provider restores the session
\* (GET /auth/me) and shows the loading state meanwhile.
Reload(r) ==
    /\ \E net \in BOOLEAN :
          Commit(token, NoUser, token # NoToken, r,
                 IF token # NoToken
                 THEN One(Op("me", TRUE, Interceptor(token), 0,
                             Sent(net, SrvMe(Interceptor(token))), TRUE))
                 ELSE EmptyBag,
                 {}, {}, "", NoFile, "", TRUE)
    /\ UNCHANGED server

\* Session restoration resumes: the user is set, or the session degrades to
\* unauthenticated (the stored token discarded or not).
MeReply(op) ==
    /\ op.kind = "me"
    /\ IF op.ok
       THEN Commit(token, op.usr, FALSE, route, ops (-) One(op),
                   reports, users, selectedUser, file, "", FALSE)
       ELSE \E discard \in BOOLEAN :
               Commit(IF discard THEN NoToken ELSE token, NoUser, FALSE, route,
                      ops (-) One(op), reports, users, selectedUser, file, "", FALSE)
    /\ UNCHANGED server

\* logout(): discards the token and the user, no server round-trip.
Logout ==
    /\ view \in {"AdminDashboard", "UserDashboard"}
    /\ Commit(NoToken, NoUser, loading, route, ops,
              reports, users, selectedUser, file, "", FALSE)
    /\ UNCHANGED server

(* ------------------------------ AuthPage ------------------------------- *)

\* The mode switch under the form.
ToggleMode ==
    /\ view = "AuthPage"
    /\ isLogin' = ~isLogin
    /\ toast' = ""
    /\ UNCHANGED <<server, token, user, loading, route, view, regionAdmin, refreshFailed,
                   reports, users, selectedUser, file, ops>>

\* handleSubmit up to its await: login(email, password) or
\* register(email, password, role) is sent.
handleSubmit(email, password, role, net) ==
    /\ view = "AuthPage"
    /\ BagCardinality(ops) < MaxOps
    /\ IF isLogin
       THEN /\ ops' = ops (+) One(Op("login", TRUE, Interceptor(token), 0,
                                     Sent(net, SrvLogin(email, password)), TRUE))
            /\ srvUsers' = srvUsers
       ELSE /\ ops' = ops (+) One(Op("register", TRUE, Interceptor(token), 0,
                                     Sent(net, SrvRegister(email, password, role)), TRUE))
            /\ srvUsers' = IF net THEN SrvRegisterUsers(email, password, role)
                           ELSE srvUsers
    /\ toast' = ""
    /\ UNCHANGED <<srvReports, nextId, deleted, token, user, loading, route, view, regionAdmin, refreshFailed,
                   isLogin, reports, users, selectedUser, file>>

\* A handleSubmit that navigates whether or not the call was fulfilled.
handleSubmitNavigates_always(ok) == TRUE

\* Where handleSubmit goes after its await.
handleSubmitNavigates(ok) == ok

\* handleSubmit after its await: on success the token and the user are stored
\* (login and register alike), the success notice shown and the root route
\* entered; on failure only the notice.
AuthReply(op) ==
    /\ op.kind \in {"login", "register"}
    /\ IF op.ok
       THEN Commit(op.tok, op.usr, loading,
                   IF handleSubmitNavigates(TRUE) THEN "/" ELSE route,
                   ops (-) One(op), reports, users, selectedUser, file,
                   IF op.kind = "login" THEN "Logged in successfully"
                   ELSE "Registered successfully", FALSE)
       ELSE Commit(token, user, loading,
                   IF handleSubmitNavigates(FALSE) THEN "/" ELSE route,
                   ops (-) One(op), reports, users, selectedUser, file,
                   IF op.detail # "" THEN op.detail ELSE "Authentication failed", FALSE)
    /\ UNCHANGED server

(* --------------------------- AdminDashboard ---------------------------- *)

\* The select lists the fetched users after the empty choice.
SelectUser(e) ==
    /\ view = "AdminDashboard"
    /\ e \in users \cup {""}
    /\ selectedUser' = e
    /\ toast' = ""
    /\ UNCHANGED <<server, token, user, loading, route, view, regionAdmin, refreshFailed, isLogin,
                   reports, users, file, ops>>

\* The file input: a chosen file, or none (files[0] undefined).
SelectFile(f) ==
    /\ view = "AdminDashboard"
    /\ file' = f
    /\ toast' = ""
    /\ UNCHANGED <<server, token, user, loading, route, view, regionAdmin, refreshFailed, isLogin,
                   reports, users, selectedUser, ops>>

\* A check that forgets the target user.
handleUploadInvalid_fileOnly(f, sel) == f = NoFile

\* handleUpload's check of the form.
handleUploadInvalid(f, sel) == f = NoFile \/ sel = ""

\* handleUpload up to its await: the validation notice, or the multipart POST.
handleUpload ==
    /\ view = "AdminDashboard"
    /\ IF handleUploadInvalid(file, selectedUser)
       THEN /\ toast' = "Please select both a file and a user"
            /\ UNCHANGED <<server, ops>>
       ELSE /\ BagCardinality(ops) < MaxOps
            /\ nextId <= MaxReports
            /\ toast' = ""
            /\ \E net \in BOOLEAN :
                 /\ ops' = ops (+) One(Op("upload", TRUE, Interceptor(token), 0,
                        Sent(net, SrvUpload(Interceptor(token), file, selectedUser)),
                        TRUE))
                 /\ IF net /\ SrvUploadAccepts(Interceptor(token))
                    THEN /\ srvReports' = srvReports \cup
                               SrvUpload(Interceptor(token), file, selectedUser).reps
                         /\ nextId' = nextId + 1
                    ELSE UNCHANGED <<srvReports, nextId>>
            /\ UNCHANGED <<srvUsers, deleted>>
    /\ UNCHANGED <<token, user, loading, route, view, regionAdmin, refreshFailed, isLogin,
                   reports, users, selectedUser, file>>

\* The awaited requests after a handler that may call fetchData(): the call
\* sends its two requests with the token stored at that moment.
Refresh(refreshes, rest, live) ==
    IF refreshes
    THEN {rest (+) One(fetchData(token, live, n1, n2)) : n1 \in BOOLEAN, n2 \in BOOLEAN}
    ELSE {rest}

\* A handler that refreshes whatever the outcome.
handleUploadRefreshes_always(ok) == TRUE

\* Whether a mutating handler refreshes the list after its await.
handleUploadRefreshes(ok) == ok

handleDeleteRefreshes(ok) == ok

\* handleUpload after its await: on success the notice, the cleared form and
\* fetchData(); on failure the server's detail or the generic notice.
UploadReply(op) ==
    /\ op.kind = "upload"
    /\ IF op.ok
       THEN \E next \in Refresh(handleUploadRefreshes(TRUE), ops (-) One(op), op.live) :
               Stay(next, reports, users,
                    IF op.live THEN "" ELSE selectedUser,
                    IF op.live THEN NoFile ELSE file,
                    "Report uploaded successfully")
       ELSE \E next \in Refresh(handleUploadRefreshes(FALSE), ops (-) One(op), op.live) :
               Stay(next, reports, users, selectedUser, file,
                    IF op.detail # "" THEN op.detail ELSE "Upload failed")
    /\ UNCHANGED server

\* handleDelete up to its await: the confirmation, then DELETE /reports/{id}.
handleDelete(id, confirm) ==
    /\ view = "AdminDashboard"
    /\ \E r \in reports : r.id = id
    /\ toast' = ""
    /\ IF ~confirm
       THEN UNCHANGED <<server, ops>>
       ELSE /\ BagCardinality(ops) < MaxOps
            /\ \E net \in BOOLEAN :
                 /\ ops' = ops (+) One(Op("delete", TRUE, Interceptor(token), id,
                        Sent(net, SrvDelete(Interceptor(token), id)), TRUE))
                 /\ IF net /\ SrvDeleteAccepts(Interceptor(token), id)
                    THEN /\ srvReports' = {r \in srvReports : r.id # id}
                         /\ deleted' = deleted \cup {id}
                    ELSE UNCHANGED <<srvReports, deleted>>
            /\ UNCHANGED <<srvUsers, nextId>>
    /\ UNCHANGED <<token, user, loading, route, view, regionAdmin, refreshFailed, isLogin,
                   reports, users, selectedUser, file>>

\* A handler that drops the row before knowing the outcome.
handleDeleteFailed_dropsRow(rep, id) == {r \in rep : r.id # id}

\* What the table shows after a failed delete of `id`.
handleDeleteFailed(rep, id) == rep

\* handleDelete after its await: on success the notice and fetchData(); on
\* failure the generic notice.
DeleteReply(op) ==
    /\ op.kind = "delete"
    /\ IF op.ok
       THEN \E next \in Refresh(handleDeleteRefreshes(TRUE), ops (-) One(op), op.live) :
               Stay(next, reports, users, selectedUser, file, "Report deleted")
       ELSE \E next \in Refresh(handleDeleteRefreshes(FALSE), ops (-) One(op), op.live) :
               Stay(next,
                    IF op.live THEN handleDeleteFailed(reports, op.id) ELSE reports,
                    users, selectedUser, file, "Delete failed")
    /\ UNCHANGED server

\* A refresh that renders as soon as the reports arrive.
fetchDataFulfilled_reportsOnly(okReports, okUsers) == okReports

\* Promise.all: fulfilled only when both requests are.
fetchDataFulfilled(okReports, okUsers) == okReports /\ okUsers

\* fetchData after its await: both collections are set, or the notice shown.
FetchDataReply(op) ==
    /\ op.kind = "fetchData"
    /\ IF fetchDataFulfilled(op.ok, op.ok2)
       THEN Stay(ops (-) One(op),
                 IF op.live THEN op.reps ELSE reports,
                 IF op.live THEN op.usrs ELSE users,
                 selectedUser, file, "")
       ELSE Stay(ops (-) One(op), reports, users, selectedUser, file,
                 "Failed to fetch dashboard data")
    /\ UNCHANGED server

(* ---------------------------- UserDashboard ---------------------------- *)

\* fetchReports after its await: the list is set, or the notice shown.
FetchReportsReply(op) ==
    /\ op.kind = "fetchReports"
    /\ IF op.ok
       THEN Stay(ops (-) One(op), IF op.live THEN op.reps ELSE reports,
                 users, selectedUser, file, "")
       ELSE Stay(ops (-) One(op), reports, users, selectedUser, file,
                 "Failed to fetch your reports")
    /\ UNCHANGED server

\* handleDownload up to its await: GET /reports/{id}/download of a listed report.
handleDownload(id) ==
    /\ view = "UserDashboard"
    /\ \E r \in reports : r.id = id
    /\ BagCardinality(ops) < MaxOps
    /\ \E net \in BOOLEAN :
          ops' = ops (+) One(Op("download", TRUE, Interceptor(token), id,
                                Sent(net, SrvDownload(Interceptor(token), id)), TRUE))
    /\ toast' = ""
    /\ UNCHANGED <<server, token, user, loading, route, view, regionAdmin, refreshFailed,
                   isLogin, reports, users, selectedUser, file>>

\* handleDownload after its await: the file is saved, or the notice shown.
DownloadReply(op) ==
    /\ op.kind = "download"
    /\ Stay(ops (-) One(op), reports, users, selectedUser, file,
            IF op.ok THEN "" ELSE "Download failed")
    /\ UNCHANGED server

\* handlePreview: window.open of the preview URL of a listed report, the stored
\* token in its query string.  The request is the new browsing context's: it
\* does not pass the api client, and the dashboard awaits nothing.
handlePreview(id) ==
    /\ view = "UserDashboard"
    /\ \E r \in reports : r.id = id
    /\ BagCardinality(ops) < MaxOps
    /\ ops' = ops (+) One([Op("preview", FALSE, NoHeader, id, SrvPreview(token, id), TRUE)
                              EXCEPT !.query = token])
    /\ toast' = ""
    /\ UNCHANGED <<server, token, user, loading, route, view, regionAdmin, refreshFailed,
                   isLogin, reports, users, selectedUser, file>>

\* The new browsing context shows the answer; the application is not told.
PreviewOpened(op) ==
    /\ op.kind = "preview"
    /\ ops' = ops (-) One(op)
    /\ UNCHANGED <<server, token, user, loading, route, view, regionAdmin, refreshFailed,
                   isLogin, reports, users, selectedUser, file, toast>>

(* ---------------------------- specification ---------------------------- *)

\* A browser that never opened the application, and an empty server.
Init ==
    /\ srvUsers = [e \in {} |-> [password |-> "", role |-> ""]]
    /\ srvReports = {}
    /\ nextId = 1
    /\ deleted = {}
    /\ token = NoToken
    /\ user = NoUser
    /\ loading = FALSE
    /\ route = "/login"
    /\ view = "AuthPage"
    /\ regionAdmin = FALSE
    /\ isLogin = TRUE
    /\ reports = {}
    /\ users = {}
    /\ selectedUser = ""
    /\ file = NoFile
    /\ ops = EmptyBag
    /\ toast = ""
    /\ refreshFailed = FALSE

Session ==
    \/ \E r \in Routes : Reload(r)
    \/ \E op \in BagToSet(ops) : MeReply(op)
    \/ Logout
    \/ ToggleMode
    \/ \E op \in BagToSet(ops) : AuthReply(op)
    \/ \E op \in BagToSet(ops) : FetchDataReply(op)
    \/ \E op \in BagToSet(ops) : FetchReportsReply(op)

Form ==
    \E e \in Emails \cup {""} : SelectUser(e)

Admin ==
    \/ \E f \in Files \cup {NoFile} : SelectFile(f)
    \/ handleUpload
    \/ \E op \in BagToSet(ops) : UploadReply(op)
    \/ \E id \in 0..MaxReports, confirm \in BOOLEAN : handleDelete(id, confirm)
    \/ \E op \in BagToSet(ops) : DeleteReply(op)

Viewer ==
    \/ \E id \in 0..MaxReports : handleDownload(id)
    \/ \E op \in BagToSet(ops) : DownloadReply(op)
    \/ \E id \in 0..MaxReports : handlePreview(id)
    \/ \E op \in BagToSet(ops) : PreviewOpened(op)

\* The whole client against the server.
Next ==
    \/ Session
    \/ Form
    \/ Admin
    \/ Viewer
    \/ \E e \in Emails, p \in Passwords, ro \in Roles, net \in BOOLEAN :
          handleSubmit(e, p, ro, net)

Spec == Init /\ [][Next]_vars

(* Spec is too large to enumerate with requests awaited concurrently, so    *)
(* each part of the client is checked in a specification of its own, whose  *)
(* steps are steps of Next.                                                 *)

\* The accounts of the runs: who signs up, with which password and role.
SignUps ==
    [e \in Emails |-> [password |-> "pw1",
                       role |-> IF e = "admin@lab.com" THEN "admin" ELSE "user"]]

\* The form as a visitor fills it: one's own password to sign up, one of the
\* given ones to sign in.
Visitor(who, passwords) ==
    \E e \in who, p \in passwords, net \in BOOLEAN :
        /\ isLogin \/ p = SignUps[e].password
        /\ handleSubmit(e, p, SignUps[e].role, net)

\* Sessions: sign-up, sign-in, restoration, logout and the dashboards' first
\* fetch, with requests awaited concurrently.
NextSession ==
    \/ Session
    \/ Visitor({"admin@lab.com", "patient@example.com"}, Passwords)

SpecSession == Init /\ [][NextSession]_vars

\* The admin dashboard: the accounts exist and the administrator has just
\* signed in (the dashboard is mounted, its first fetchData awaited).
InitAdmin ==
    /\ srvUsers = SignUps
    /\ srvReports = {}
    /\ nextId = 1
    /\ deleted = {}
    /\ token = [sub |-> "admin@lab.com"]
    /\ user = [email |-> "admin@lab.com", role |-> "admin"]
    /\ loading = FALSE
    /\ route = "/"
    /\ view = "AdminDashboard"
    /\ regionAdmin = FALSE
    /\ isLogin = TRUE
    /\ reports = {}
    /\ users = {}
    /\ selectedUser = ""
    /\ file = NoFile
    /\ ops \in MountFetch("AdminDashboard", token)
    /\ toast = "Logged in successfully"
    /\ refreshFailed = FALSE

NextAdmin ==
    \/ \E e \in {"", "patient@example.com"} : SelectUser(e)
    \/ Admin
    \/ \E op \in BagToSet(ops) : FetchDataReply(op)
    \/ Logout

SpecAdmin == InitAdmin /\ [][NextAdmin]_vars

\* The same, on a server that already stores a report of an earlier run.
InitStored ==
    /\ srvUsers = SignUps
    /\ srvReports = {[id |-> 0, user_email |-> "patient@example.com",
                      original_name |-> "lipid_panel.pdf"]}
    /\ nextId = 1
    /\ deleted = {}
    /\ token = [sub |-> "admin@lab.com"]
    /\ user = [email |-> "admin@lab.com", role |-> "admin"]
    /\ loading = FALSE
    /\ route = "/"
    /\ view = "AdminDashboard"
    /\ regionAdmin = FALSE
    /\ isLogin = TRUE
    /\ reports = {}
    /\ users = {}
    /\ selectedUser = ""
    /\ file = NoFile
    /\ ops \in MountFetch("AdminDashboard", token)
    /\ toast = "Logged in successfully"
    /\ refreshFailed = FALSE

SpecStored == InitStored /\ [][NextAdmin]_vars

\* A browser that never opened the application, and a server with the
\* accounts and a report of an earlier run.
InitVisit ==
    /\ srvUsers = SignUps
    /\ srvReports = {[id |-> 0, user_email |-> "patient@example.com",
                      original_name |-> "lipid_panel.pdf"]}
    /\ nextId = 1
    /\ deleted = {}
    /\ token = NoToken
    /\ user = NoUser
    /\ loading = FALSE
    /\ route = "/login"
    /\ view = "AuthPage"
    /\ regionAdmin = FALSE
    /\ isLogin = TRUE
    /\ reports = {}
    /\ users = {}
    /\ selectedUser = ""
    /\ file = NoFile
    /\ ops = EmptyBag
    /\ toast = ""
    /\ refreshFailed = FALSE

\* Signing out with requests awaited: the administrator and a patient sign
\* in, upload or view, sign out at any moment and in again.
NextSignOut ==
    \/ ToggleMode
    \/ Visitor({"admin@lab.com", "patient@example.com"}, {"pw1"})
    \/ \E op \in BagToSet(ops) : AuthReply(op)
    \/ \E e \in {"", "patient@example.com"} : SelectUser(e)
    \/ \E f \in Files : SelectFile(f)
    \/ handleUpload
    \/ \E op \in BagToSet(ops) : UploadReply(op)
    \/ \E op \in BagToSet(ops) : FetchDataReply(op)
    \/ \E op \in BagToSet(ops) : FetchReportsReply(op)
    \/ Viewer
    \/ Logout

SpecSignOut == InitVisit /\ [][NextSignOut]_vars

\* A user who waits for every answer before acting again.
Idle == ops = EmptyBag

Replies ==
    \/ \E op \in BagToSet(ops) : MeReply(op)
    \/ \E op \in BagToSet(ops) : AuthReply(op)
    \/ \E op \in BagToSet(ops) : FetchDataReply(op)
    \/ \E op \in BagToSet(ops) : FetchReportsReply(op)
    \/ \E op \in BagToSet(ops) : UploadReply(op)
    \/ \E op \in BagToSet(ops) : DeleteReply(op)
    \/ \E op \in BagToSet(ops) : DownloadReply(op)
    \/ \E op \in BagToSet(ops) : PreviewOpened(op)

\* The whole client, one request at a time: administrators and patients take
\* turns at the same browser.
NextReports ==
    \/ Replies
    \/ Idle /\ Visitor(Emails, Passwords)
    \/ Idle /\ Form
    \/ Idle /\ Admin
    \/ Idle /\ \E id \in 0..MaxReports : handleDownload(id)
    \/ Idle /\ \E id \in 0..MaxReports : handlePreview(id)
    \/ Idle /\ Logout
    \/ Idle /\ ToggleMode
    \/ Idle /\ \E r \in Routes : Reload(r)

SpecReports == Init /\ [][NextReports]_vars

\* The gate alone, as a function of the session it is given: any user record,
\* restoration pending or not, any stored token, either kind of region.
InitGate ==
    /\ srvUsers = SignUps
    /\ srvReports = {}
    /\ nextId = 1
    /\ deleted = {}
    /\ token \in {NoToken} \cup {[sub |-> e] : e \in Emails}
    /\ user \in {NoUser} \cup {[email |-> e, role |-> ro] : e \in Emails, ro \in Roles}
    /\ loading \in BOOLEAN
    /\ route = "/"
    /\ view = "Pending"
    /\ regionAdmin \in BOOLEAN
    /\ isLogin = TRUE
    /\ reports = {}
    /\ users = {}
    /\ selectedUser = ""
    /\ file = NoFile
    /\ ops = EmptyBag
    /\ toast = ""
    /\ refreshFailed = FALSE

\* The region's element is rendered: the loading view, a redirect to the login
\* view, a redirect to the root route (whose gate requires no role), or the
\* children (at the root route, the DashboardRouter).
EnterRegion ==
    /\ view = "Pending"
    /\ LET out == ProtectedRoute(user, loading, regionAdmin)
       IN  /\ view' = IF out = "Loading" THEN "Loading"
                      ELSE IF out = "Navigate:/login" THEN "AuthPage"
                      ELSE IF out = "Navigate:/" THEN "Pending"
                      ELSE IF regionAdmin THEN "AdminRegion"
                      ELSE DashboardRouter(user)
           /\ route' = IF out = "Navigate:/login" THEN "/login" ELSE route
           /\ regionAdmin' = IF out = "Navigate:/" THEN FALSE ELSE regionAdmin
    /\ UNCHANGED <<server, token, user, loading, isLogin, reports, users,
                   selectedUser, file, ops, toast, refreshFailed>>

SpecGate == InitGate /\ [][EnterRegion]_vars

(* ------------------------------- claims -------------------------------- *)

\* The awaited requests a step leaves that were not awaited before it (a
\* remount detaches the old ones, and detaching sends nothing; a reload drops
\* the old ones).
Issued ==
    IF user' = NoUser /\ token' = token /\ (\E r \in Routes : Reload(r))
    THEN DOMAIN ops'
    ELSE LET before == IF view' # view THEN Detach(ops) ELSE ops
         IN  {o \in DOMAIN ops' : Count(ops', o) > Count(before, o)}

\* A fetchData awaited after the step that was not awaited before it.
IssuesOneRefresh(op) ==
    \E f \in DOMAIN ops' :
        /\ f.kind = "fetchData"
        /\ f.live = op.live
        /\ ops' = (ops (-) One(op)) (+) One(f)

\* C1: submitting the upload form with no file or no target user sends no
\* request (neither the POST nor a refresh), shows the validation notice, and
\* leaves file, selectedUser, reports, users and the server's reports as they were.
C1_UploadValidation ==
    [][(handleUpload /\ (file = NoFile \/ selectedUser = ""))
         => /\ ops' = ops
            /\ toast' = "Please select both a file and a user"
            /\ UNCHANGED <<file, selectedUser, reports, users, srvReports, nextId>>]_vars

\* C1 witness: the notice is up over a form with a file chosen and no user.
C1_Witness ==
    /\ view = "AdminDashboard"
    /\ toast = "Please select both a file and a user"
    /\ file # NoFile
    /\ selectedUser = ""

\* C6: the server never lists a report it has deleted, so no list fetched
\* after a delete holds it; and a delete of an identifier the server no longer
\* has is refused without changing the stored reports, and resumes with the
\* notice "Delete failed" and the displayed state (reports, users, form) unchanged.
C6_DeleteIdempotent ==
    [][/\ \A r \in srvReports' : r.id \notin deleted'
       /\ \A o \in Issued :
            o.kind \in {"fetchData", "fetchReports"}
                => \A r \in o.reps : r.id \notin deleted'
       /\ \A id \in 0..MaxReports :
            (handleDelete(id, TRUE) /\ ~ \E r \in srvReports : r.id = id)
                => /\ srvReports' = srvReports
                   /\ \A o \in Issued : o.kind = "delete" /\ ~o.ok
       /\ \A op \in DOMAIN ops :
            (DeleteReply(op) /\ ~op.ok)
                => /\ toast' = "Delete failed"
                   /\ ops' = ops (-) One(op)
                   /\ UNCHANGED <<reports, users, selectedUser, file, srvReports, view>>]_vars

\* C6 witness: a delete of an already deleted report is awaited, refused as
\* not found, while the table still shows the report.
C6_Witness ==
    \E op \in DOMAIN ops :
        /\ op.kind = "delete"
        /\ op.live
        /\ op.id \in deleted
        /\ op.detail = "Report not found"
        /\ \E r \in reports : r.id = op.id

\* C8: a fetchData of which either request was rejected changes neither
\* collection and shows the notice; the collections of a mounted dashboard
\* change only together, to the two lists of one fetchData whose requests
\* were both fulfilled.
C8_RefreshAllOrNothing ==
    [][/\ \A op \in DOMAIN ops :
            (FetchDataReply(op) /\ ~(op.ok /\ op.ok2))
                => /\ reports' = reports
                   /\ users' = users
                   /\ toast' = "Failed to fetch dashboard data"
       /\ (view' = view /\ (reports' # reports \/ users' # users))
            => \E op \in DOMAIN ops :
                  /\ op.kind = "fetchData" /\ op.live /\ op.ok /\ op.ok2
                  /\ ops' = ops (-) One(op)
                  /\ reports' = op.reps
                  /\ users' = op.usrs]_vars

\* C8 witness: a refresh was rejected and the earlier list is still shown.
C8_Witness ==
    /\ view = "AdminDashboard"
    /\ toast = "Failed to fetch dashboard data"
    /\ reports # {}
    /\ users # {}

\* C9: a successful upload clears the form and issues one refresh, a
\* successful delete issues one refresh; a failed upload or delete issues no
\* request and leaves the form and the collections unchanged; a declined
\* delete sends nothing; and no other step of the upload and delete handlers
\* issues a refresh.
C9_RefreshAfterMutation ==
    [][/\ \A op \in DOMAIN ops :
            /\ (UploadReply(op) /\ op.ok)
                 => /\ IssuesOneRefresh(op)
                    /\ op.live => (file' = NoFile /\ selectedUser' = "")
            /\ (DeleteReply(op) /\ op.ok) => IssuesOneRefresh(op)
            /\ ((UploadReply(op) \/ DeleteReply(op)) /\ ~op.ok)
                 => /\ ops' = ops (-) One(op)
                    /\ UNCHANGED <<file, selectedUser, reports, users>>
       /\ \A id \in 0..MaxReports :
            handleDelete(id, FALSE) => (ops' = ops /\ srvReports' = srvReports)
       /\ (handleUpload \/ \E id \in 0..MaxReports, c \in BOOLEAN : handleDelete(id, c))
            => \A o \in Issued : o.kind # "fetchData"]_vars

\* C9 witness: an upload has resumed successfully: the form is cleared and
\* the refresh it issued is awaited.
C9_Witness ==
    /\ view = "AdminDashboard"
    /\ toast = "Report uploaded successfully"
    /\ file = NoFile
    /\ selectedUser = ""
    /\ \E o \in DOMAIN ops : o.kind = "fetchData" /\ o.live /\ o.reps # {}

\* C10: with the admin dashboard mounted, no request awaited and no refresh
\* rejected, the displayed reports are the server's reports.
C10_DisplayedIsCurrent ==
    (view = "AdminDashboard" /\ ops = EmptyBag /\ ~refreshFailed)
        => reports = srvReports

\* C2 as stated: every request leaves with the header "Bearer <token>" of the
\* token stored when it is sent, and with no Authorization header when none is
\* stored; logout clears the stored token.
C2_EveryRequestCarriesHeader ==
    [][/\ \A o \in Issued :
            o.hdr = IF token' # NoToken
                    THEN [scheme |-> "Bearer", credentials |-> token']
                    ELSE NoHeader
       /\ Logout => token' = NoToken]_vars

\* C2: every request of the api client leaves with the header "Bearer <token>"
\* of the token stored when it is sent, and with no Authorization header when
\* none is stored; the preview request, which the browser opens by URL, leaves
\* with no header and the stored token in its query string; logout clears the
\* stored token, so whatever is sent after it, until the next sign-in, carries
\* no header.
C2_AuthorizationHeader ==
    [][/\ \A o \in Issued :
            /\ o.kind # "preview"
                 => /\ o.hdr = IF token' # NoToken
                               THEN [scheme |-> "Bearer", credentials |-> token']
                               ELSE NoHeader
                    /\ o.query = NoToken
            /\ o.kind = "preview" => (o.hdr = NoHeader /\ o.query = token')
       /\ Logout => token' = NoToken]_vars

\* C2 witness: no token is stored after a logout; a preview opened before it
\* went out with the token in its URL and no header, and the refresh of an
\* upload that resumed after it was sent without a header and refused.
C2_Witness ==
    /\ token = NoToken
    /\ view = "AuthPage"
    /\ \E o \in DOMAIN ops :
          /\ o.kind = "preview"
          /\ o.hdr = NoHeader
          /\ o.query # NoToken
    /\ \E o \in DOMAIN ops :
          /\ o.kind = "fetchData"
          /\ o.hdr = NoHeader
          /\ o.detail = "Not authenticated"

\* C3: the dashboards (the protected children) are rendered only with
\* restoration finished and a user present; at the protected route the loading
\* view is shown while restoration is pending; with restoration finished and no
\* user the protected route is left for /login and the login view rendered,
\* and no dashboard request is sent unless a dashboard is rendered.
C3_ProtectedGate ==
    [][/\ view' \in {"AdminDashboard", "UserDashboard"}
            => (~loading' /\ user' # NoUser /\ route' = "/")
       /\ (route' = "/" /\ loading') => view' = "Loading"
       /\ (~loading' /\ user' = NoUser) => (route' # "/" /\ view' = "AuthPage")
       /\ (route = "/" /\ ~loading' /\ user' = NoUser) => route' = "/login"
       /\ (Reload("/") /\ token = NoToken) => route' = "/login"
       /\ view' \notin {"AdminDashboard", "UserDashboard"}
            => \A o \in Issued : o.kind \notin DashboardKinds]_vars

\* C3 witness: restoration of a stored token failed at the protected route
\* (the token kept): the login view is rendered at /login.
C3_Witness ==
    /\ token # NoToken
    /\ user = NoUser
    /\ ~loading
    /\ route = "/login"
    /\ view = "AuthPage"
    /\ ops = EmptyBag

\* C7: a fulfilled register and a fulfilled login resume alike: the answer's
\* token is stored, its user set and the root route entered; unless restoration
\* is pending the dashboard of the user's role is rendered and, as it mounts,
\* its fetch leaves with that token and is not refused (only the network can
\* fail it).  A
\* register is fulfilled exactly for an email not yet registered, and creates
\* the account it answers with.  A rejected register or login changes neither
\* the token, the user, the route nor the view, and sends nothing.
C7_RegisterLikeLogin ==
    [][/\ \A op \in DOMAIN ops :
            /\ (AuthReply(op) /\ op.ok)
                 => /\ token' = op.tok
                    /\ token' # NoToken
                    /\ user' = op.usr
                    /\ user' # NoUser
                    /\ route' = "/"
                    /\ ~loading
                         => /\ view' = DashboardRouter(op.usr)
                            /\ view' # view
                                 => \E o \in Issued :
                                       o.kind \in {"fetchData", "fetchReports"}
                            /\ \A o \in Issued :
                                 /\ o.kind \in {"fetchData", "fetchReports"}
                                 /\ o.live
                                 /\ o.hdr = [scheme |-> "Bearer", credentials |-> op.tok]
                                 /\ o.ok \/ o.detail = ""
            /\ (AuthReply(op) /\ ~op.ok)
                 => /\ UNCHANGED <<token, user, route, view>>
                    /\ Issued = {}
       /\ \A o \in Issued :
            /\ (o.kind = "register" /\ o.ok)
                 => /\ o.tok.sub \notin DOMAIN srvUsers
                    /\ o.tok.sub \in DOMAIN srvUsers'
                    /\ o.usr = [email |-> o.tok.sub, role |-> srvUsers'[o.tok.sub].role]
            /\ (o.kind = "register" /\ ~o.ok /\ o.detail # "")
                 => o.detail = "Email already registered" /\ srvUsers' = srvUsers
            /\ (o.kind = "login" /\ o.ok)
                 => /\ o.tok.sub \in DOMAIN srvUsers
                    /\ o.usr = [email |-> o.tok.sub, role |-> srvUsers[o.tok.sub].role]]_vars

\* C7 witness: a register has just resumed fulfilled; the dashboard's fetch,
\* sent with the new token, is awaited with the server's answer.
C7_Witness ==
    /\ toast = "Registered successfully"
    /\ token # NoToken
    /\ route = "/"
    /\ \E o \in DOMAIN ops :
          /\ o.kind \in {"fetchData", "fetchReports"}
          /\ o.live
          /\ o.hdr.credentials = token
          /\ o.ok

\* C4: the gate and the router decide by the user's role alone, whatever the
\* email and the stored token: at the root route an authenticated user gets
\* the admin dashboard exactly when the role is admin and the user dashboard
\* otherwise; a non-admin entering a region that requires admin is sent to the
\* root route, and that region's content is rendered for admins only.
C4_RoleDispatch ==
    [][EnterRegion
         => /\ (~loading /\ user # NoUser /\ ~regionAdmin)
                 => view' = IF user.role = "admin" THEN "AdminDashboard"
                            ELSE "UserDashboard"
            /\ view' = "AdminDashboard"
                 => (~loading /\ user # NoUser /\ user.role = "admin" /\ ~regionAdmin)
            /\ view' = "UserDashboard"
                 => (~loading /\ user # NoUser /\ user.role # "admin" /\ ~regionAdmin)
            /\ (~loading /\ user # NoUser /\ regionAdmin /\ user.role # "admin")
                 => (view' = "Pending" /\ route' = "/" /\ ~regionAdmin')
            /\ view' = "AdminRegion"
                 => (~loading /\ user # NoUser /\ user.role = "admin" /\ regionAdmin)]_vars

\* C4 witness: a user of role user whose browser stores the administrator's
\* token is shown the user dashboard.
C4_Witness ==
    /\ view = "UserDashboard"
    /\ user.role = "user"
    /\ token = [sub |-> "admin@lab.com"]

\* C5: (one request at a time) a fulfilled report list awaited by a caller is
\* the caller's own reports when the token's account has role user and all
\* stored reports when it has role admin; the user dashboard never shows a
\* report owned by another email.
C5_ReportScoping ==
    /\ \A o \in DOMAIN ops :
          (o.kind \in {"fetchData", "fetchReports"} /\ o.ok /\ o.ok2)
              => /\ Identity(o.hdr) # NoUser
                 /\ Identity(o.hdr).role = "user"
                      => o.reps = {r \in srvReports :
                                      r.user_email = Identity(o.hdr).email}
                 /\ Identity(o.hdr).role = "admin" => o.reps = srvReports
    /\ view = "UserDashboard" => \A r \in reports : r.user_email = user.email

\* C5 witness: a patient's list was fetched and is empty while the server
\* stores a report of another patient.
C5_Witness ==
    /\ view = "UserDashboard"
    /\ user.email = "other@example.com"
    /\ ops = EmptyBag
    /\ toast = ""
    /\ reports = {}
    /\ \E r \in srvReports : r.user_email = "patient@example.com"

====
